---- MODULE Spec2Model ----
(***************************************************************************)
(* WhatsApp chat time calculator: parseChat (date-order detection, strict  *)
(* line parsing, stable sort), groupSessions, splitSessionByDay and the    *)
(* day / month aggregation loop of src/unnamed/part_001 (the older variant *)
(* src/whatsapp-chat-time.ts has the same parser, segmenter and splitter). *)
(*                                                                         *)
(* Dates.  Every Date the program builds has zero seconds and zero         *)
(* milliseconds (new Date(y, m-1, d, hh, mm, 0, 0) and the local midnight  *)
(* new Date(y, m, d+1)), so a Date is held as its number of whole minutes  *)
(* since local 2000-01-01 00:00; the origin is never observed, only the    *)
(* calendar fields and differences are.  A difference of two getTime()     *)
(* values is 60000 times the difference in minutes (MsBetween).  The local *)
(* time zone has a fixed offset: no daylight-saving transitions.           *)
(***************************************************************************)
EXTENDS Integers, Sequences, FiniteSets, TLC

VARIABLES
    lines,          \* the input lines (allLines)
    GAP_MIN,        \* --gap=N
    FORCE_MDY,      \* --mdy
    FORCE_DMY,      \* --dmy
    COUNT_BY,       \* --count-by=start|presence
    pc,             \* position in the script
    dateOrder,      \* parseChat: const dateOrder
    i,              \* parseChat: index of the next line of the for loop
    msgs,           \* parseChat: msgs
    rejected,       \* parseChat: rejected
    sessions,       \* const sessions = groupSessions(msgs, GAP_MIN)
    k,              \* aggregation loop: index of the next session
    perDayDur,      \* Map YYYY-MM-DD -> ms
    perDayCount,    \* Map YYYY-MM-DD -> sessions count
    perMonthDur,    \* Map YYYY-MM -> ms
    perMonthCount,  \* Map YYYY-MM -> sessions count
    overallMs,      \* total duration
    overallCount    \* "conversations: ${sessions.length}"

vars == <<lines, GAP_MIN, FORCE_MDY, FORCE_DMY, COUNT_BY, pc, dateOrder, i, msgs,
          rejected, sessions, k, perDayDur, perDayCount, perMonthDur,
          perMonthCount, overallMs, overallCount>>

----------------------------------------------------------------------------
(* Bounds of the model and constants of the program *)

\* longest input of the catalogued lines
MaxLines == 3

\* longest input of the inputs that overflow the rejected examples
MaxLongLines == 7

\* rejected.length < 5
MaxRejected == 5

\* year += 2000
Century == 2000

----------------------------------------------------------------------------
(* Generic helpers *)

Range(s) == {s[n] : n \in DOMAIN s}

BoundedSeq(S, n) == UNION {[1..m -> S] : m \in 0..n}

RECURSIVE SumSeq(_)
SumSeq(s) == IF s = <<>> THEN 0 ELSE Head(s) + SumSeq(Tail(s))

RECURSIVE SumMap(_)
SumMap(f) ==
    IF DOMAIN f = {} THEN 0
    ELSE LET x == CHOOSE y \in DOMAIN f : TRUE
         IN f[x] + SumMap([z \in DOMAIN f \ {x} |-> f[z]])

\* (map.get(key) || 0)
Get(map, key) == IF key \in DOMAIN map THEN map[key] ELSE 0

\* map.set(key, (map.get(key) || 0) + n)
Add(map, key, n) ==
    IF key \in DOMAIN map THEN [map EXCEPT ![key] = @ + n] ELSE map @@ (key :> n)

----------------------------------------------------------------------------
(* The built-in Date, local time, whole minutes *)

IsLeap(y) == (y % 4 = 0 /\ y % 100 # 0) \/ y % 400 = 0

DaysInMonth(y, m) ==
    CASE m \in {1, 3, 5, 7, 8, 10, 12} -> 31
      [] m \in {4, 6, 9, 11} -> 30
      [] OTHER -> IF IsLeap(y) THEN 29 ELSE 28

LeapsThrough(n) == (n \div 4) - (n \div 100) + (n \div 400)

\* days from 2000-01-01 to y-01-01, y >= 2000
DaysBeforeYear(y) == 365 * (y - 2000) + LeapsThrough(y - 1) - LeapsThrough(1999)

RECURSIVE DaysBeforeMonth(_, _)
DaysBeforeMonth(y, m) ==
    IF m <= 1 THEN 0 ELSE DaysBeforeMonth(y, m - 1) + DaysInMonth(y, m - 1)

\* new Date(y, m0, d, hh, mm, 0, 0): m0 is zero-based and in 0..11; a day past
\* the end of the month rolls over into the following months.
NewDate(y, m0, d, hh, mm) ==
    ((DaysBeforeYear(y) + DaysBeforeMonth(y, m0 + 1) + (d - 1)) * 24 + hh) * 60 + mm

DayNumber(t) == t \div 1440

RECURSIVE YearFrom(_, _)
YearFrom(y, n) == IF n < DaysBeforeYear(y + 1) THEN y ELSE YearFrom(y + 1, n)

getFullYear(t) == YearFrom(2000 + (DayNumber(t) \div 366), DayNumber(t))

RECURSIVE MonthFrom(_, _, _)
MonthFrom(y, m, n) ==
    IF n < DaysInMonth(y, m) THEN m ELSE MonthFrom(y, m + 1, n - DaysInMonth(y, m))

\* zero-based, as Date.prototype.getMonth
getMonth(t) ==
    MonthFrom(getFullYear(t), 1, DayNumber(t) - DaysBeforeYear(getFullYear(t))) - 1

getDate(t) ==
    DayNumber(t) - DaysBeforeYear(getFullYear(t))
        - DaysBeforeMonth(getFullYear(t), getMonth(t) + 1) + 1

getHours(t) == (t % 1440) \div 60

getMinutes(t) == t % 60

\* b.getTime() - a.getTime(), in milliseconds
MsBetween(a, b) == (b - a) * 60000

\* `${d.getFullYear()}-${pad2(d.getMonth() + 1)}-${pad2(d.getDate())}`
dayKey(t) == <<getFullYear(t), getMonth(t) + 1, getDate(t)>>

\* `${d.getFullYear()}-${pad2(d.getMonth() + 1)}`
monthKey(t) == <<getFullYear(t), getMonth(t) + 1>>

\* const [y, m] = day.split("-"); `${y}-${m}`
MonthOfDayKey(dk) == <<dk[1], dk[2]>>

----------------------------------------------------------------------------
(* Input lines *)

(* A line after normalizeDigits(stripWeirdSpaces(raw)), held as what the two
   regular expressions of the program read from it.
     re      LINE_RE matches the line
     n1, n2, year, hour, minute
             parseInt of the groups m[1]..m[5] of LINE_RE
     marker  the text between the minutes and the separator " - ":
             "", " AM", " PM", " am", " pm", "AM", "PM"  (LINE_RE takes
             \s?(AM|PM) case-insensitively)
     text    "plain", or "usampm" when the rest of the line (or, for a line
             LINE_RE does not match, the line) holds a text such as
             "at 5 PM - ok", which /(?:\sAM|\sPM)\s*[-–]\s/ matches
   The separator is " - " in every line of the model. *)
Stamp(n1, n2, year, hour, minute, marker) ==
    [re |-> TRUE, n1 |-> n1, n2 |-> n2, year |-> year, hour |-> hour,
     minute |-> minute, marker |-> marker, text |-> "plain"]

Chatter(text) ==
    [re |-> FALSE, n1 |-> 0, n2 |-> 0, year |-> 0, hour |-> 0, minute |-> 0,
     marker |-> "", text |-> text]

\* The chat of the full pipeline: the end of January 2025 read day-first, and
\* three lines "1/2/25, 10:0x AM - A: ..." that either order can read.
ChatLines ==
    { Stamp(30, 1, 25, 23, 58, ""),      \* "30/1/25, 23:58 - A: hi"
      Stamp(31, 1, 25, 0, 0, ""),        \* "31/1/25, 00:00 - A: hi"
      Stamp(31, 1, 25, 0, 5, ""),        \* "31/1/25, 00:05 - A: hi"
      Stamp(1, 2, 25, 0, 5, ""),         \* "1/2/25, 00:05 - A: hi"
      Stamp(1, 2, 25, 10, 0, " AM"),     \* "1/2/25, 10:00 AM - A: hi"
      Stamp(1, 2, 25, 10, 2, " AM"),     \* "1/2/25, 10:02 AM - A: there"
      Stamp(1, 2, 25, 10, 10, " AM") }   \* "1/2/25, 10:10 AM - A: bye"

\* --gap values: 0, the gap of two catalogued lines (5), 10, and one of more
\* than two days
Gaps == {0, 5, 10, 3000}

\* Lines that exercise the parser
ParseLines ==
    { Stamp(1, 2, 25, 10, 0, " AM"),     \* "1/2/25, 10:00 AM - A: hi"
      Stamp(2, 1, 25, 10, 0, " pm"),     \* "2/1/25, 10:00 pm - A: hi"
      Stamp(4, 1, 25, 11, 30, "PM"),     \* "4/1/25, 11:30PM - A: hi"
      Stamp(31, 4, 2025, 10, 0, ""),     \* "31/4/2025, 10:00 - A: hi"
      Stamp(4, 31, 2025, 10, 0, ""),     \* "4/31/2025, 10:00 - A: hi"
      Stamp(13, 1, 25, 23, 58, ""),      \* "13/1/25, 23:58 - A: hi"
      Stamp(1, 13, 25, 12, 30, " AM"),   \* "1/13/25, 12:30 AM - A: hi"
      Stamp(29, 2, 25, 9, 5, ""),        \* "29/2/25, 9:05 - A: hi"
      Stamp(5, 6, 25, 24, 0, ""),        \* "5/6/25, 24:00 - A: hi"
      Stamp(5, 6, 25, 10, 75, ""),       \* "5/6/25, 10:75 - A: hi"
      Chatter("usampm"),                 \* "see you at 5 PM - ok"
      Chatter("plain") }                 \* "hello"

\* Lines of the inputs that hold more rejected lines than examples are kept
LongLines ==
    { Stamp(31, 4, 2025, 10, 0, ""),     \* "31/4/2025, 10:00 - A: hi"
      Stamp(13, 1, 25, 23, 58, "") }     \* "13/1/25, 23:58 - A: hi"

----------------------------------------------------------------------------
(* parseLine *)

\* (m[6] || "").toUpperCase()
ampm(line) ==
    CASE line.marker \in {" AM", " am", "AM", "am"} -> "AM"
      [] line.marker \in {" PM", " pm", "PM", "pm"} -> "PM"
      [] OTHER -> ""

\* if (year < 100) year += 2000
YearOf(line) == IF line.year < 100 THEN line.year + Century ELSE line.year

\* if (ampm === "AM" && hour === 12) hour = 0;
\* if (ampm === "PM" && hour < 12) hour += 12
HourOf(line) ==
    IF ampm(line) = "AM" /\ line.hour = 12 THEN 0
    ELSE IF ampm(line) = "PM" /\ line.hour < 12 THEN line.hour + 12
    ELSE line.hour

MonthOf(line, order) == IF order = "mdy" THEN line.n1 ELSE line.n2

DayOf(line, order) == IF order = "mdy" THEN line.n2 ELSE line.n1

\* null
Null == -1

\* a faulty variant of makeStrictLocalDate that does not read the fields back
makeLooseLocalDate(y, m, d, hh, mm) == NewDate(y, m - 1, d, hh, mm)

makeStrictLocalDate(y, m, d, hh, mm) ==
    LET dt == NewDate(y, m - 1, d, hh, mm)
    IN IF \/ getFullYear(dt) # y
          \/ getMonth(dt) # m - 1
          \/ getDate(dt) # d
          \/ getHours(dt) # hh
          \/ getMinutes(dt) # mm
       THEN Null
       ELSE dt

\* The timestamp of the message, or Null
parseLine(line, order) ==
    IF ~line.re THEN Null
    ELSE LET year == YearOf(line)
             hour == HourOf(line)
             month == MonthOf(line, order)
             day == DayOf(line, order)
         IN IF \/ month < 1 \/ month > 12
               \/ day < 1 \/ day > 31
               \/ hour < 0 \/ hour > 23
               \/ line.minute < 0 \/ line.minute > 59
            THEN Null
            ELSE makeStrictLocalDate(year, month, day, hour, line.minute)

----------------------------------------------------------------------------
(* detectDateOrder *)

\* if (b > 12 && a <= 12) mdy++
VotesMDY(ls) ==
    Cardinality({n \in DOMAIN ls : ls[n].re /\ ls[n].n2 > 12 /\ ls[n].n1 <= 12})

\* else if (a > 12 && b <= 12) dmy++
VotesDMY(ls) ==
    Cardinality({n \in DOMAIN ls : ls[n].re /\ ls[n].n1 > 12 /\ ls[n].n2 <= 12})

\* /(?:\sAM|\sPM)\s*[-–]\s/.test(l): upper case only, whitespace before it
UsAmPm(line) == line.marker \in {" AM", " PM"} \/ line.text = "usampm"

\* lines.some(...)
hasAmPm(ls) == \E n \in DOMAIN ls : UsAmPm(ls[n])

detectDateOrder(ls) ==
    IF FORCE_MDY THEN "mdy"
    ELSE IF FORCE_DMY THEN "dmy"
    ELSE IF VotesMDY(ls) > VotesDMY(ls) THEN "mdy"
    ELSE IF VotesDMY(ls) > VotesMDY(ls) THEN "dmy"
    ELSE IF hasAmPm(ls) THEN "mdy" ELSE "dmy"

----------------------------------------------------------------------------
(* parseChat *)

\* msgs.sort((a, b) => a.ts - b.ts): stable
RECURSIVE InsertByTs(_, _)
InsertByTs(sorted, m) ==
    IF sorted = <<>> THEN <<m>>
    ELSE IF m.ts < Head(sorted).ts THEN <<m>> \o sorted
    ELSE <<Head(sorted)>> \o InsertByTs(Tail(sorted), m)

RECURSIVE SortByTs(_)
SortByTs(s) ==
    IF s = <<>> THEN <<>>
    ELSE InsertByTs(SortByTs(SubSeq(s, 1, Len(s) - 1)), s[Len(s)])

----------------------------------------------------------------------------
(* groupSessions *)

\* faulty variants of SameSession: <= for <, and > for <
SameSessionLe(prev, curr, th) == MsBetween(prev, curr) <= th

SameSessionGt(prev, curr, th) == MsBetween(prev, curr) > th

\* if (curr - prev < th)
SameSession(prev, curr, th) == MsBetween(prev, curr) < th

NewSession(m) == [start |-> m.ts, end |-> m.ts, count |-> 1]

\* for (let i = 1; i < msgs.length; i++) ...; out.push(cur)
\* (idx is one-based: m[idx - 1] is the previous message)
RECURSIVE GroupLoop(_, _, _, _, _)
GroupLoop(m, th, idx, cur, out) ==
    IF idx > Len(m) THEN Append(out, cur)
    ELSE IF SameSession(m[idx - 1].ts, m[idx].ts, th)
    THEN GroupLoop(m, th, idx + 1,
                   [cur EXCEPT !.end = m[idx].ts, !.count = @ + 1], out)
    ELSE GroupLoop(m, th, idx + 1, NewSession(m[idx]), Append(out, cur))

groupSessions(m, gapMin) ==
    IF Len(m) = 0 THEN <<>>
    ELSE GroupLoop(m, gapMin * 60 * 1000, 2, NewSession(m[1]), <<>>)

----------------------------------------------------------------------------
(* splitSessionByDay *)

\* a faulty variant of NextMidnight that adds 24 hours to the position
NextMidnightPlusDay(t) == t + 1440

\* new Date(d.getFullYear(), d.getMonth(), d.getDate() + 1).getTime()
NextMidnight(t) == NewDate(getFullYear(t), getMonth(t), getDate(t) + 1, 0, 0)

\* a faulty variant of SliceEnd that does not stop at the end of the session
SliceEndUnclamped(end, midnight) == midnight

\* Math.min(end, midnight)
SliceEnd(end, midnight) == IF end < midnight THEN end ELSE midnight

\* while (start < end) { ... }
RECURSIVE SplitLoop(_, _, _)
SplitLoop(start, end, parts) ==
    IF start < end
    THEN LET sliceEnd == SliceEnd(end, NextMidnight(start))
         IN SplitLoop(sliceEnd, end,
                      Append(parts, [day |-> dayKey(start),
                                     ms |-> MsBetween(start, sliceEnd)]))
    ELSE parts

splitSessionByDay(s) ==
    IF s.start = s.end THEN <<[day |-> dayKey(s.start), ms |-> 0]>>
    ELSE SplitLoop(s.start, s.end, <<>>)

----------------------------------------------------------------------------
(* The aggregation loop *)

\* for (const p of parts) perDayDur.set(p.day, (perDayDur.get(p.day) || 0) + p.ms)
RECURSIVE FoldDayDur(_, _)
FoldDayDur(map, parts) ==
    IF parts = <<>> THEN map
    ELSE FoldDayDur(Add(map, Head(parts).day, Head(parts).ms), Tail(parts))

\* for (const p of parts) perMonthDur.set(mk, (perMonthDur.get(mk) || 0) + p.ms)
RECURSIVE FoldMonthDur(_, _)
FoldMonthDur(map, parts) ==
    IF parts = <<>> THEN map
    ELSE FoldMonthDur(Add(map, MonthOfDayKey(Head(parts).day), Head(parts).ms),
                      Tail(parts))

\* new Set(parts.map((p) => p.day)), in insertion order
RECURSIVE SeenDays(_)
SeenDays(parts) ==
    IF parts = <<>> THEN <<>>
    ELSE LET before == SeenDays(SubSeq(parts, 1, Len(parts) - 1))
             d == parts[Len(parts)].day
         IN IF d \in Range(before) THEN before ELSE Append(before, d)

\* a faulty variant of CountedDays that counts by presence under either policy
CountedDaysAlways(s, parts) == SeenDays(parts)

\* The day keys whose count the session increments
CountedDays(s, parts) ==
    IF COUNT_BY = "presence" THEN SeenDays(parts) ELSE <<dayKey(s.start)>>

\* The month keys whose count the session increments: under presence one for
\* every day of seenDays
CountedMonths(s, parts) ==
    IF COUNT_BY = "presence"
    THEN [n \in DOMAIN SeenDays(parts) |-> MonthOfDayKey(SeenDays(parts)[n])]
    ELSE <<monthKey(s.start)>>

\* map.set(key, (map.get(key) || 0) + 1) for every key
RECURSIVE FoldCount(_, _)
FoldCount(map, keys) ==
    IF keys = <<>> THEN map ELSE FoldCount(Add(map, Head(keys), 1), Tail(keys))

\* sessions.reduce((sum, s) => sum + (s.end - s.start), 0)
RECURSIVE reduceMs(_)
reduceMs(ss) ==
    IF ss = <<>> THEN 0
    ELSE reduceMs(SubSeq(ss, 1, Len(ss) - 1))
             + MsBetween(ss[Len(ss)].start, ss[Len(ss)].end)

----------------------------------------------------------------------------
(* The script *)

EmptyMap == [x \in {} |-> 0]

Start(ls, gap, mdy, dmy, policy) ==
    /\ lines = ls
    /\ GAP_MIN = gap
    /\ FORCE_MDY = mdy
    /\ FORCE_DMY = dmy
    /\ COUNT_BY = policy
    /\ pc = "detect"
    /\ dateOrder = "none"
    /\ i = 1
    /\ msgs = <<>>
    /\ rejected = <<>>
    /\ sessions = <<>>
    /\ k = 1
    /\ perDayDur = EmptyMap
    /\ perDayCount = EmptyMap
    /\ perMonthDur = EmptyMap
    /\ perMonthCount = EmptyMap
    /\ overallMs = 0
    /\ overallCount = 0

\* The full pipeline on a chat of the end of January 2025, no forced order
Init ==
    \E ls \in BoundedSeq(ChatLines, MaxLines), gap \in Gaps,
       policy \in {"start", "presence"} :
        Start(ls, gap, FALSE, FALSE, policy)

\* parseChat on the lines that exercise the parser
InitParse ==
    \E ls \in BoundedSeq(ParseLines, MaxLines)
              \cup UNION {[1..n -> LongLines] : n \in (MaxRejected + 1)..MaxLongLines},
       mdy \in BOOLEAN, dmy \in BOOLEAN :
        Start(ls, 5, mdy, dmy, "start")

\* const dateOrder = detectDateOrder(allLines)
DetectDateOrder ==
    /\ pc = "detect"
    /\ dateOrder' = detectDateOrder(lines)
    /\ pc' = "parse"
    /\ UNCHANGED <<lines, GAP_MIN, FORCE_MDY, FORCE_DMY, COUNT_BY, i, msgs, rejected,
                   sessions, k, perDayDur, perDayCount, perMonthDur, perMonthCount,
                   overallMs, overallCount>>

\* One turn of parseChat's loop.  A message keeps the number of its line
\* (the model's name for the object; the program keeps sender and text).
ParseLine ==
    /\ pc = "parse"
    /\ i <= Len(lines)
    /\ LET ts == parseLine(lines[i], dateOrder)
       IN IF ts # Null
          THEN /\ msgs' = Append(msgs, [ts |-> ts, line |-> i])
               /\ UNCHANGED rejected
          ELSE /\ rejected' = IF lines[i].re /\ Len(rejected) < MaxRejected
                              THEN Append(rejected, lines[i])
                              ELSE rejected
               /\ UNCHANGED msgs
    /\ i' = i + 1
    /\ UNCHANGED <<lines, GAP_MIN, FORCE_MDY, FORCE_DMY, COUNT_BY, pc, dateOrder,
                   sessions, k, perDayDur, perDayCount, perMonthDur, perMonthCount,
                   overallMs, overallCount>>

\* msgs.sort(...); return { msgs, dateOrder, rejected }
ParseChatReturn ==
    /\ pc = "parse"
    /\ i > Len(lines)
    /\ msgs' = SortByTs(msgs)
    /\ pc' = "group"
    /\ UNCHANGED <<lines, GAP_MIN, FORCE_MDY, FORCE_DMY, COUNT_BY, dateOrder, i,
                   rejected, sessions, k, perDayDur, perDayCount, perMonthDur,
                   perMonthCount, overallMs, overallCount>>

\* const sessions = groupSessions(msgs, GAP_MIN)
GroupSessions ==
    /\ pc = "group"
    /\ sessions' = groupSessions(msgs, GAP_MIN)
    /\ pc' = "aggregate"
    /\ UNCHANGED <<lines, GAP_MIN, FORCE_MDY, FORCE_DMY, COUNT_BY, dateOrder, i, msgs,
                   rejected, k, perDayDur, perDayCount, perMonthDur, perMonthCount,
                   overallMs, overallCount>>

\* One turn of: for (const s of sessions) { ... }
AggregateSession ==
    /\ pc = "aggregate"
    /\ k <= Len(sessions)
    /\ LET s == sessions[k]
           parts == splitSessionByDay(s)
       IN /\ perDayDur' = FoldDayDur(perDayDur, parts)
          /\ perMonthDur' = FoldMonthDur(perMonthDur, parts)
          /\ perDayCount' = FoldCount(perDayCount, CountedDays(s, parts))
          /\ perMonthCount' = FoldCount(perMonthCount, CountedMonths(s, parts))
    /\ k' = k + 1
    /\ UNCHANGED <<lines, GAP_MIN, FORCE_MDY, FORCE_DMY, COUNT_BY, pc, dateOrder, i,
                   msgs, rejected, sessions, overallMs, overallCount>>

\* const overallMs = sessions.reduce(...); the report's totals
Totals ==
    /\ pc = "aggregate"
    /\ k > Len(sessions)
    /\ overallMs' = reduceMs(sessions)
    /\ overallCount' = Len(sessions)
    /\ pc' = "done"
    /\ UNCHANGED <<lines, GAP_MIN, FORCE_MDY, FORCE_DMY, COUNT_BY, dateOrder, i, msgs,
                   rejected, sessions, k, perDayDur, perDayCount, perMonthDur,
                   perMonthCount>>

Next ==
    \/ DetectDateOrder
    \/ ParseLine
    \/ ParseChatReturn
    \/ GroupSessions
    \/ AggregateSession
    \/ Totals

Spec == Init /\ [][Next]_vars

NextParse ==
    \/ DetectDateOrder
    \/ ParseLine
    \/ ParseChatReturn

SpecParse == InitParse /\ [][NextParse]_vars

----------------------------------------------------------------------------
(* Properties of groupSessions *)

\* groupSessions has returned
Grouped == pc \in {"aggregate", "done"}

\* The messages of the sessions before session n
RECURSIVE CountBefore(_, _)
CountBefore(S, n) == IF n <= 1 THEN 0 ELSE CountBefore(S, n - 1) + S[n - 1].count

FirstOf(S, n) == CountBefore(S, n) + 1

LastOf(S, n) == CountBefore(S, n) + S[n].count

\* Messages a and b are in the same session
SameRun(S, a, b) == \E n \in DOMAIN S : FirstOf(S, n) <= a /\ b <= LastOf(S, n)

\* Sessions S cut the sorted messages m, in order, into the maximal runs of
\* adjacent gaps below gapMin minutes
RunPartition(m, S, gapMin) ==
    /\ CountBefore(S, Len(S) + 1) = Len(m)
    /\ \A n \in DOMAIN S :
        /\ S[n].count >= 1
        /\ S[n].start = m[FirstOf(S, n)].ts
        /\ S[n].end = m[LastOf(S, n)].ts
        /\ \A j \in FirstOf(S, n)..(LastOf(S, n) - 1) :
               MsBetween(m[j].ts, m[j + 1].ts) < gapMin * 60000
        /\ n < Len(S) =>
               MsBetween(m[LastOf(S, n)].ts, m[LastOf(S, n) + 1].ts) >= gapMin * 60000

\* C1: the sessions groupSessions returns partition the time-sorted messages,
\* in order, into maximal runs: adjacent messages share a session if and only
\* if their gap is strictly less than the threshold (a gap equal to the
\* threshold starts a new session); a session's start and end are the
\* timestamps of its first and last message, its count the length of the run.
C1_SessionsAreMaximalRuns == Grouped => RunPartition(msgs, sessions, GAP_MIN)

\* C1's case: a run of two messages, then a gap equal to the threshold that
\* starts a new session
C1_Witness ==
    /\ Grouped
    /\ GAP_MIN > 0
    /\ \E n \in DOMAIN sessions :
        /\ sessions[n].count >= 2
        /\ n < Len(sessions)
        /\ MsBetween(sessions[n].end, sessions[n + 1].start) = GAP_MIN * 60000

\* C8: on the same sorted messages, a larger gap threshold never gives more
\* sessions than a smaller one.
C8_SessionCountMonotone ==
    Grouped =>
        \A t1 \in Gaps, t2 \in Gaps :
            t1 <= t2 => Len(groupSessions(msgs, t2)) <= Len(groupSessions(msgs, t1))

\* C8's case: messages that a larger threshold groups into fewer sessions
C8_Witness ==
    /\ Grouped
    /\ \E t1 \in Gaps, t2 \in Gaps :
        /\ t1 < t2
        /\ Len(groupSessions(msgs, t2)) < Len(groupSessions(msgs, t1))
        /\ Len(groupSessions(msgs, t2)) >= 2

\* C9 as stated: with threshold 0, two adjacent messages share a session
\* exactly when their timestamps are identical.
C9_ZeroGapMergesIdentical ==
    (Grouped /\ GAP_MIN = 0) =>
        \A j \in 1..(Len(msgs) - 1) :
            SameRun(sessions, j, j + 1) <=> (msgs[j].ts = msgs[j + 1].ts)

\* C9 amended: with threshold 0 no two messages share a session, identical
\* timestamps or not: every message is a session of its own, of count 1.
C9_ZeroGapNeverMerges ==
    (Grouped /\ GAP_MIN = 0) =>
        /\ Len(sessions) = Len(msgs)
        /\ \A n \in DOMAIN sessions :
            /\ sessions[n].count = 1
            /\ sessions[n].start = msgs[n].ts
            /\ sessions[n].end = msgs[n].ts
        /\ \A j \in 1..(Len(msgs) - 1) : ~SameRun(sessions, j, j + 1)

\* C9's case: threshold 0 and two adjacent messages of the same timestamp
C9_Witness ==
    /\ Grouped
    /\ GAP_MIN = 0
    /\ \E j \in 1..(Len(msgs) - 1) : msgs[j].ts = msgs[j + 1].ts

----------------------------------------------------------------------------
(* Properties of splitSessionByDay *)

\* The position at which slice n of the session begins
RECURSIVE SliceStart(_, _, _)
SliceStart(s, parts, n) ==
    IF n <= 1 THEN s.start
    ELSE SliceStart(s, parts, n - 1) + (parts[n - 1].ms \div 60000)

SliceMs(parts) == [n \in DOMAIN parts |-> parts[n].ms]

\* C2: the slices of a session sum exactly to end - start, none is negative,
\* and each lies within the one calendar day that keys it.
C2_SlicesSumWithinDays ==
    Grouped =>
        \A n \in DOMAIN sessions :
            LET s == sessions[n]
                parts == splitSessionByDay(s)
            IN /\ s.start <= s.end
               /\ SumSeq(SliceMs(parts)) = MsBetween(s.start, s.end)
               /\ \A j \in DOMAIN parts :
                   /\ parts[j].ms >= 0
                   /\ dayKey(SliceStart(s, parts, j)) = parts[j].day
                   /\ parts[j].ms > 0 =>
                          dayKey(SliceStart(s, parts, j + 1) - 1) = parts[j].day

\* C2's case: an aggregated session in three slices, one a whole day
C2_Witness ==
    /\ pc = "done"
    /\ \E n \in DOMAIN sessions :
        /\ Len(splitSessionByDay(sessions[n])) = 3
        /\ splitSessionByDay(sessions[n])[2].ms = 86400000
        /\ Cardinality(DOMAIN perDayDur) >= 3

\* The calendar day n days after the day of t
DayAfter(t, n) == dayKey((DayNumber(t) + n) * 1440)

\* C10 as stated: a session whose end lies N local midnights after the day of
\* its start, the end on a midnight included, has exactly N + 1 slices, keyed
\* by the N + 1 consecutive days from the start's day to the end's day; a
\* session with start = end has one slice of duration 0 on the start's day.
C10_SlicePerDayThroughEnd ==
    Grouped =>
        \A n \in DOMAIN sessions :
            LET s == sessions[n]
                parts == splitSessionByDay(s)
                N == DayNumber(s.end) - DayNumber(s.start)
            IN /\ Len(parts) = N + 1
               /\ \A j \in DOMAIN parts : parts[j].day = DayAfter(s.start, j - 1)
               /\ s.start = s.end => parts[1].ms = 0

----------------------------------------------------------------------------
(* Properties of the aggregation loop *)

\* The aggregation loop has started; the sessions before k have been folded
Aggregating == pc \in {"aggregate", "done"}

Folded == 1..(k - 1)

\* The days that key the slices of a session
SliceDays(s) == {p.day : p \in Range(splitSessionByDay(s))}

\* The months of those days
SliceMonths(s) == {MonthOfDayKey(d) : d \in SliceDays(s)}

DayKeys == DOMAIN perDayCount \cup UNION {SliceDays(sessions[n]) : n \in Folded}

MonthKeys == DOMAIN perMonthCount \cup UNION {SliceMonths(sessions[n]) : n \in Folded}

\* C3: under the start policy the day-level counts sum to the number of
\* sessions and a session is counted only on the day of its start; under the
\* presence policy they sum to at least the number of sessions and a session
\* is counted on every day that keys one of its slices.
C3_DayCountsByPolicy ==
    Aggregating =>
        /\ COUNT_BY = "start" =>
            /\ SumMap(perDayCount) = k - 1
            /\ \A d \in DayKeys :
                   Get(perDayCount, d)
                       = Cardinality({n \in Folded : dayKey(sessions[n].start) = d})
        /\ COUNT_BY = "presence" =>
            /\ SumMap(perDayCount) >= k - 1
            /\ \A d \in DayKeys :
                   Get(perDayCount, d)
                       = Cardinality({n \in Folded : d \in SliceDays(sessions[n])})

\* C3's case: messages at 23:58 and 00:05 of the next day, threshold 10,
\* presence: one session, counted on both days
C3_Witness ==
    /\ pc = "done"
    /\ COUNT_BY = "presence"
    /\ GAP_MIN = 10
    /\ Len(sessions) = 1
    /\ getHours(sessions[1].start) = 23 /\ getMinutes(sessions[1].start) = 58
    /\ getHours(sessions[1].end) = 0 /\ getMinutes(sessions[1].end) = 5
    /\ perDayCount = (dayKey(sessions[1].start) :> 1) @@ (dayKey(sessions[1].end) :> 1)
    /\ SumMap(perDayCount) = 2

\* C4 as stated: under the presence policy a session adds one to the count of
\* every distinct month its slices touch, and no more: k days inside one month
\* add 1, not k, to that month.
C4_MonthCountedOncePerSession ==
    (Aggregating /\ COUNT_BY = "presence") =>
        \A mk \in MonthKeys :
            Get(perMonthCount, mk)
                = Cardinality({n \in Folded : mk \in SliceMonths(sessions[n])})

\* The number of sessions of the sorted messages: one, and one more for every
\* adjacent gap that is not below the threshold
RunCount(m, gapMin) ==
    IF Len(m) = 0 THEN 0
    ELSE 1 + Cardinality({j \in 1..(Len(m) - 1) :
                              MsBetween(m[j].ts, m[j + 1].ts) >= gapMin * 60000})

SessionMs(ss) == [n \in DOMAIN ss |-> MsBetween(ss[n].start, ss[n].end)]

\* C5: under either policy the day-level durations, the month-level durations
\* and the overall total (the sum of end - start over the sessions) are equal,
\* and the overall session count is the number of sessions.
C5_DurationsAgree ==
    pc = "done" =>
        /\ overallMs = SumSeq(SessionMs(sessions))
        /\ SumMap(perDayDur) = overallMs
        /\ SumMap(perMonthDur) = overallMs
        /\ overallCount = RunCount(msgs, GAP_MIN)

\* C5's case: two sessions, one across a midnight, over two months
C5_Witness ==
    /\ pc = "done"
    /\ overallMs > 0
    /\ overallCount >= 2
    /\ Cardinality(DOMAIN perDayDur) >= 3
    /\ Cardinality(DOMAIN perMonthDur) >= 2

----------------------------------------------------------------------------
(* Properties of parseChat *)

\* The lines parseChat's loop has been through
Parsed == IF pc = "detect" THEN {} ELSE 1..(i - 1)

\* A calendar date-time
RealDateTime(y, mo, d, h, mi) ==
    /\ mo \in 1..12
    /\ d \in 1..DaysInMonth(y, mo)
    /\ h \in 0..23
    /\ mi \in 0..59

\* The line's year, month, day, hour and minute, after date-order assignment,
\* two-digit-year expansion and AM/PM conversion, are a calendar date-time
RealLine(line, order) ==
    RealDateTime(YearOf(line), MonthOf(line, order), DayOf(line, order),
                 HourOf(line), line.minute)

MsgsOfLine(n) == {j \in DOMAIN msgs : msgs[j].line = n}

\* The grammar-matching lines among the first n that are no calendar date-time
RECURSIVE UnrealLines(_)
UnrealLines(n) ==
    IF n = 0 THEN <<>>
    ELSE IF lines[n].re /\ ~RealLine(lines[n], dateOrder)
    THEN Append(UnrealLines(n - 1), lines[n])
    ELSE UnrealLines(n - 1)

FirstFew(s, n) == SubSeq(s, 1, IF Len(s) < n THEN Len(s) ELSE n)

\* C6: a grammar-matching line yields a Message only if its fields are a real
\* calendar date-time, and then the Message's timestamp reads back exactly
\* those fields; any other grammar-matching line yields no Message (no
\* rolled-over date) and is kept as a rejected example while fewer than 5 are
\* held.  A line outside the grammar yields neither.
C6_StrictDates ==
    /\ \A n \in Parsed :
        /\ Cardinality(MsgsOfLine(n))
               = IF lines[n].re /\ RealLine(lines[n], dateOrder) THEN 1 ELSE 0
        /\ \A j \in MsgsOfLine(n) :
            /\ getFullYear(msgs[j].ts) = YearOf(lines[n])
            /\ getMonth(msgs[j].ts) + 1 = MonthOf(lines[n], dateOrder)
            /\ getDate(msgs[j].ts) = DayOf(lines[n], dateOrder)
            /\ getHours(msgs[j].ts) = HourOf(lines[n])
            /\ getMinutes(msgs[j].ts) = lines[n].minute
    /\ pc # "detect" => rejected = FirstFew(UnrealLines(i - 1), MaxRejected)

\* C6's case: "31/4/2025, 10:00 - A: hi" read day-first is rejected and gives no
\* Message, and a sixth rejected line is no longer kept as an example
C6_Witness ==
    /\ pc = "group"
    /\ dateOrder = "dmy"
    /\ \E n \in DOMAIN lines :
        /\ lines[n] = Stamp(31, 4, 2025, 10, 0, "")
        /\ MsgsOfLine(n) = {}
        /\ rejected[1] = lines[n]
    /\ Len(rejected) = MaxRejected
    /\ Len(UnrealLines(Len(lines))) > MaxRejected
    /\ Len(msgs) >= 1

\* A line holds an AM/PM marker before the separator: the marker LINE_RE reads
\* (either case, with or without a space before it), or the text the test of
\* detectDateOrder finds
HasMarker(line) == (line.re /\ ampm(line) # "") \/ UsAmPm(line)

\* The date order as C7 states it
StatedOrder ==
    IF FORCE_MDY THEN "mdy"
    ELSE IF FORCE_DMY THEN "dmy"
    ELSE IF VotesMDY(lines) > VotesDMY(lines) THEN "mdy"
    ELSE IF VotesDMY(lines) > VotesMDY(lines) THEN "dmy"
    ELSE IF \E n \in DOMAIN lines : HasMarker(lines[n]) THEN "mdy" ELSE "dmy"

\* C7 as stated: one date order for the run, decided from the whole input
\* before any line becomes a Message: a forced order; else MDY or DMY by the
\* majority of the votes; on a tie MDY if any line has an AM/PM marker before
\* the separator, else DMY.  Every line is read under that order, and a line
\* invalid under it is rejected, never read under the other order.
C7_OneDateOrder ==
    /\ pc = "detect" => msgs = <<>> /\ rejected = <<>>
    /\ pc # "detect" =>
        /\ dateOrder = StatedOrder
        /\ \A j \in DOMAIN msgs : msgs[j].ts = parseLine(lines[msgs[j].line], dateOrder)
        /\ \A n \in Parsed :
               (lines[n].re /\ parseLine(lines[n], dateOrder) = Null) => MsgsOfLine(n) = {}

----------------------------------------------------------------------------
(* The scenario of three messages on one day *)

\* "1/2/25, 10:00 AM - A: hi", "1/2/25, 10:02 AM - A: there" and
\* "1/2/25, 10:10 AM - A: bye", in any order, with --gap=5
ThreeMessages ==
    /\ Len(lines) = 3
    /\ Range(lines) = { Stamp(1, 2, 25, 10, 0, " AM"),
                        Stamp(1, 2, 25, 10, 2, " AM"),
                        Stamp(1, 2, 25, 10, 10, " AM") }
    /\ GAP_MIN = 5

\* C11 as stated: the three messages at 10:00, 10:02 and 10:10 with a gap
\* threshold of 5 minutes give exactly one session, of 10 minutes from 10:00
\* to 10:10, and the day 2025-01-02 has a session count of 1.
C11_OneSessionOfTenMinutes ==
    (pc = "done" /\ ThreeMessages) =>
        /\ Len(sessions) = 1
        /\ sessions[1].start = NewDate(2025, 0, 2, 10, 0)
        /\ sessions[1].end = NewDate(2025, 0, 2, 10, 10)
        /\ MsBetween(sessions[1].start, sessions[1].end) = 600000
        /\ Get(perDayCount, <<2025, 1, 2>>) = 1

\* C11 amended: the gap from 10:02 to 10:10 is 8 minutes, not below 5, so the
\* three messages give exactly two sessions: 10:00 to 10:02 (2 minutes, two
\* messages) and 10:10 alone (0 minutes); the total is 2 minutes and the day
\* 2025-01-02, the only day of the report, has a session count of 2.
C11_TwoSessions ==
    (pc = "done" /\ ThreeMessages) =>
        /\ sessions = << [start |-> NewDate(2025, 0, 2, 10, 0),
                          end |-> NewDate(2025, 0, 2, 10, 2), count |-> 2],
                         [start |-> NewDate(2025, 0, 2, 10, 10),
                          end |-> NewDate(2025, 0, 2, 10, 10), count |-> 1] >>
        /\ overallMs = 120000
        /\ overallCount = 2
        /\ perDayCount = (<<2025, 1, 2>> :> 2)
        /\ perDayDur = (<<2025, 1, 2>> :> 120000)

\* C11's case: the script has run to its end on the three messages, read
\* month-first
C11_Witness ==
    /\ pc = "done"
    /\ ThreeMessages
    /\ dateOrder = "mdy"
    /\ Len(msgs) = 3
    /\ rejected = <<>>

====
